---- MODULE Spec2Model ----
(***************************************************************************)
(* A model of the DPLL solver of src/src/lib.rs: the clause store built by *)
(* Solver::new, two-watched-literal propagation, the trail with its        *)
(* checkpoints, implication probing, and the decision stack of solve and   *)
(* backtrack.  Functions of the source are operators or, where they        *)
(* contain calls to propagate or undo_to_level, sequences of labelled      *)
(* steps driven by pc and the stack of return labels ret.                  *)
(*                                                                         *)
(* Conventions: Option<T> is a sequence of length 0 (None) or 1 (Some);    *)
(* watch indices are 0-based as in the source (position i of a literal     *)
(* list is literals[i + 1]); clause ids are positions in the clause store  *)
(* counted from 1.                                                         *)
(***************************************************************************)
EXTENDS Integers, Sequences, FiniteSets, TLC

\* ---------------------------------------------------------------- bounds

\* Variables declared by the "p cnf" line of the inputs of stored clauses.
NumVars == 3
\* Largest number of clause lines in such an input.
MaxClauses == 3
\* Largest number of clause lines in an input whose runs are followed to
\* their end under fairness.
LiveClauses == 2

\* The widest clause parse_dimacs_line keeps (lib.rs:129).
MaxWidth == 3

\* ------------------------------------------------------- Option, literals

None == <<>>

Some(x) == <<x>>

lit_to_var(lit) == IF lit < 0 THEN -lit ELSE lit

lit_to_idx(lit) == lit_to_var(lit) * 2 + (IF lit < 0 THEN 1 ELSE 0)

make_lit(var, polarity) == IF polarity THEN var ELSE -var

get_literal_value(assignments, lit) ==
    IF assignments[lit_to_var(lit)] = None
    THEN None
    ELSE Some(assignments[lit_to_var(lit)][1] = (lit > 0))

\* ------------------------------------------------------------- the input

\* An input file: the variable count of its "p cnf" line and its clause
\* lines, each the literals before the terminating 0.
Lits(n) == (-n .. n) \ {0}

\* Clause lines of width k over n variables, one literal per variable, in
\* ascending variable order.
NarrowLines(n, k) ==
    { s \in [1..k -> Lits(n)] :
        \A i \in 1..(k - 1) : lit_to_var(s[i]) < lit_to_var(s[i + 1]) }

\* Clause lines that repeat one literal: units in effect, which are not
\* assigned at load time.
DoubledLines(n) == { <<l, l>> : l \in Lits(n) }

LinePool(n) ==
    UNION { NarrowLines(n, k) : k \in 1..MaxWidth } \cup DoubledLines(n)

\* Inputs about what is stored: over one variable more than the widest
\* stored clause has literals, the unit lines, a clause line wider than
\* parse_dimacs_line keeps (of either polarity) and the line holding only
\* the terminator.
WideVars == MaxWidth + 1

WideLines ==
    { [i \in 1..WideVars |-> i], [i \in 1..WideVars |-> -i] }

LoadPool == NarrowLines(WideVars, 1) \cup WideLines \cup { <<>> }

\* Inputs that make a deeper frame fail under one alternative of a
\* shallower one: the widest stored clauses that begin with -1.
ChainPool == { s \in NarrowLines(WideVars, MaxWidth) : s[1] = -1 }

\* An order on clause lines (the first literal counts most), used to list
\* each set of lines once.
RECURSIVE LineCode(_, _)
LineCode(s, k) ==
    IF k = 0 THEN 0
    ELSE (IF k <= Len(s) THEN lit_to_idx(s[k]) ELSE 0) + 16 * LineCode(s, k - 1)

Coded(pool) == { <<LineCode(s, WideVars), s>> : s \in pool }

\* The input files of n variables with up to m lines of the pool.
InputsOver(n, pool, m) ==
    LET coded == Coded(pool)
    IN UNION { { [variable_count |-> n, lines |-> [i \in 1..k |-> t[i][2]]] :
                   t \in { u \in [1..k -> coded] :
                             \A i \in 1..(k - 1) : u[i][1] < u[i + 1][1] } } :
               k \in 0..m }

Inputs ==
    InputsOver(NumVars, LinePool(NumVars), MaxClauses)
        \cup InputsOver(WideVars, LoadPool, WideVars)
        \cup InputsOver(WideVars, ChainPool, WideVars)

\* The inputs the runs of solve are followed to their end on.
LiveInputs == InputsOver(NumVars, LinePool(NumVars), LiveClauses)

\* ------------------------------------------------------- Solver::new

Min(a, b) == IF a < b THEN a ELSE b

\* A clause line: one that is empty or wider than MaxWidth is not stored.
parse_dimacs_line(clauses, literals) ==
    IF literals = <<>> \/ Len(literals) > MaxWidth
    THEN clauses
    ELSE Append(clauses,
                [literals |-> literals,
                 watched_indices |-> <<0, Min(1, Len(literals) - 1)>>,
                 visit_count |-> 0])

RECURSIVE ParseLines(_, _)
ParseLines(clauses, lines) ==
    IF lines = <<>> THEN clauses
    ELSE ParseLines(parse_dimacs_line(clauses, Head(lines)), Tail(lines))

\* watch_lists after the first id - 1 clauses have been registered.
RECURSIVE initialize_watches(_, _, _)
initialize_watches(cs, wl, id) ==
    IF id > Len(cs) THEN wl
    ELSE LET c == cs[id]
             lit0 == c.literals[c.watched_indices[1] + 1]
             wl0 == [wl EXCEPT ![lit_to_idx(lit0)] = Append(@, id)]
             wl1 == IF Len(c.literals) > 1
                    THEN LET lit1 == c.literals[c.watched_indices[2] + 1]
                         IN [wl0 EXCEPT ![lit_to_idx(lit1)] = Append(@, id)]
                    ELSE wl0
         IN initialize_watches(cs, wl1, id + 1)

\* The edge (from, to) of the shape (~x \/ ~y \/ z), if the three literals
\* have it.
try_add_candidate(candidates, lit1, lit2, lit3) ==
    IF lit3 > 0 /\ lit1 < 0 /\ lit2 < 0
    THEN candidates \cup { [from |-> lit_to_var(-lit1), to |-> lit_to_var(lit3)] }
    ELSE candidates

RECURSIVE extract_implication_candidates(_, _, _)
extract_implication_candidates(cs, candidates, id) ==
    IF id > Len(cs) THEN candidates
    ELSE LET l == cs[id].literals
         IN IF Len(l) = 3
            THEN extract_implication_candidates(cs,
                    try_add_candidate(
                        try_add_candidate(
                            try_add_candidate(candidates, l[1], l[2], l[3]),
                            l[1], l[3], l[2]),
                        l[2], l[3], l[1]),
                    id + 1)
            ELSE extract_implication_candidates(cs, candidates, id + 1)

\* ------------------------------------------------------------- the state

VARIABLES
    input,                 \* the input file the solver was built from
    clauses,               \* Solver.clauses
    assignments,           \* Solver.assignments, slots 1..variable_count
    watch_lists,           \* Solver.watch_lists, indexed by lit_to_idx
    trail,                 \* Solver.trail
    trail_lim,             \* Solver.trail_lim
    implications,          \* Solver.implications: the proven edges
    pending_implications,  \* Solver.pending_implications
    decision_stack,        \* solve's decision_stack
    pc,                    \* the statement about to run
    ret,                   \* labels to return to, innermost call first
    rv,                    \* the value the last call returned
    queue,                 \* propagate's queue
    units,                 \* initial_propagation's units still to assign
    edge,                  \* the edge being probed
    save_lim,              \* test_implication's save_lim
    level,                 \* undo_to_level's argument
    dec,                   \* the frame backtrack has popped
    pair,                  \* assign_pair's arguments
    verdict,               \* what solve returned, once it has
    probe_entry,           \* history: the state test_implication was entered in
    decisions,             \* history: the branches taken, in order
    probes,                \* history: the candidates probed, in order
    first,                 \* history: the outcome of an earlier run of solve
    history,               \* history: per frame in use, the table and trail it
                           \* was opened on and the alternatives attempted
    stamp                  \* history: per variable, the checkpoints there were
                           \* when it was assigned (0 while it is unassigned)

solver == <<clauses, assignments, watch_lists, trail, trail_lim,
            implications, pending_implications>>

locals == <<queue, units, edge, save_lim, level, dec, pair>>

vars == <<input, solver, decision_stack, pc, ret, rv, locals, verdict,
          probe_entry, decisions, probes, first, history, stamp>>

new(file) ==
    LET cs == ParseLines(<<>>, file.lines)
        n == file.variable_count
    IN [clauses |-> cs,
        assignments |-> [v \in 1..n |-> None],
        watch_lists |-> initialize_watches(cs, [i \in 0..(2 * n + 1) |-> <<>>], 1),
        pending_implications |-> extract_implication_candidates(cs, {}, 1)]

\* The state Solver::new leaves, for an input drawn from a set of inputs.
Start(inputs) ==
    /\ input \in inputs
    /\ clauses = new(input).clauses
    /\ assignments = new(input).assignments
    /\ watch_lists = new(input).watch_lists
    /\ trail = <<>>
    /\ trail_lim = <<>>
    /\ implications = {}
    /\ pending_implications = new(input).pending_implications
    /\ decision_stack = <<>>
    /\ pc = "solve"
    /\ ret = <<>>
    /\ rv = None
    /\ queue = <<>>
    /\ units = <<>>
    /\ edge = None
    /\ save_lim = 0
    /\ level = 0
    /\ dec = None
    /\ pair = None
    /\ verdict = None
    /\ probe_entry = None
    /\ decisions = <<>>
    /\ probes = <<>>
    /\ first = None
    /\ history = <<>>
    /\ stamp = [v \in 1..input.variable_count |-> 0]

Init == Start(Inputs)

\* The history of assignment levels over a step: a variable the step assigns
\* is stamped with the number of checkpoints the step leaves.
Stamped ==
    stamp' = [v \in DOMAIN stamp |->
                IF assignments'[v] = None THEN 0
                ELSE IF assignments[v] = None THEN Len(trail_lim')
                ELSE stamp[v]]

\* ------------------------------------------- assignment and propagation

\* assign that overwrites the value of a variable already assigned.
assign_over(a, t, lit) ==
    [assignments |-> [a EXCEPT ![lit_to_var(lit)] = Some(lit > 0)],
     trail |-> IF a[lit_to_var(lit)] = None THEN Append(t, lit_to_var(lit)) ELSE t,
     ok |-> TRUE]

\* assign that sets the value without recording the variable on the trail.
assign_untrailed(a, t, lit) ==
    LET var == lit_to_var(lit)
    IN IF a[var] = None
       THEN [assignments |-> [a EXCEPT ![var] = Some(lit > 0)], trail |-> t, ok |-> TRUE]
       ELSE [assignments |-> a, trail |-> t, ok |-> a[var][1] = (lit > 0)]

\* assign: the table and trail it leaves and the value it returns.
assign(a, t, lit) ==
    LET var == lit_to_var(lit)
        polarity == lit > 0
    IN IF a[var] = None
       THEN [assignments |-> [a EXCEPT ![var] = Some(polarity)],
             trail |-> Append(t, var),
             ok |-> TRUE]
       ELSE [assignments |-> a, trail |-> t, ok |-> a[var][1] = polarity]

\* FirstReplacement that leaves only the slot being vacated out of the
\* search.
RECURSIVE FirstReplacement_own(_, _, _)
FirstReplacement_own(c, a, idx) ==
    IF idx >= Len(c.literals) THEN None
    ELSE IF /\ idx # c.watched_indices[2]
            /\ get_literal_value(a, c.literals[idx + 1]) # Some(FALSE)
         THEN Some(idx)
         ELSE FirstReplacement_own(c, a, idx + 1)

\* The first position other than the two watched whose literal is not false.
RECURSIVE FirstReplacement(_, _, _)
FirstReplacement(c, a, idx) ==
    IF idx >= Len(c.literals) THEN None
    ELSE IF /\ idx # c.watched_indices[1]
            /\ idx # c.watched_indices[2]
            /\ get_literal_value(a, c.literals[idx + 1]) # Some(FALSE)
         THEN Some(idx)
         ELSE FirstReplacement(c, a, idx + 1)

\* find_replacement_watch that takes the first unwatched position,
\* whatever its literal's value.
find_replacement_watch_any(c, a) ==
    LET free == { idx \in 0..(Len(c.literals) - 1) :
                    idx # c.watched_indices[1] /\ idx # c.watched_indices[2] }
    IN IF free = {} THEN None
       ELSE Some(CHOOSE idx \in free : \A other \in free : idx <= other)

find_replacement_watch(c, a) == FirstReplacement(c, a, 0)

\* The clause inspected without its counter moving.
Visited_not(c) == c

\* The clause with the inspection counted (c.visit_count += 1).
Visited(c) == [c EXCEPT !.visit_count = @ + 1]

\* update_clause on clause cid of the propagation state st (clauses,
\* assignments, watch_lists, queue, trail): the state it leaves, with keep
\* and conflict as it returns them.
update_clause(st, falsified, cid) ==
    LET c0 == st.clauses[cid]
        c1 == Visited(c0)
        c == IF c1.literals[c1.watched_indices[1] + 1] = falsified
             THEN [c1 EXCEPT !.watched_indices = <<@[2], @[1]>>]
             ELSE c1
        w0 == c.literals[c.watched_indices[1] + 1]
        j == find_replacement_watch(c, st.assignments)
        visited == [st EXCEPT !.clauses[cid] = c]
    IN IF get_literal_value(st.assignments, w0) = Some(TRUE)
       THEN [visited EXCEPT !.keep = TRUE, !.conflict = FALSE]
       ELSE IF j # None
       THEN [visited EXCEPT
                !.clauses[cid].watched_indices[2] = j[1],
                !.watch_lists[lit_to_idx(c.literals[j[1] + 1])] = Append(@, cid),
                !.keep = FALSE, !.conflict = FALSE]
       ELSE IF get_literal_value(st.assignments, w0) = Some(FALSE)
       THEN [visited EXCEPT !.keep = TRUE, !.conflict = TRUE]
       ELSE LET r == assign(st.assignments, st.trail, w0)
            IN IF ~r.ok
               THEN [visited EXCEPT !.keep = TRUE, !.conflict = TRUE]
               ELSE [visited EXCEPT
                        !.assignments = r.assignments,
                        !.trail = r.trail,
                        !.queue = Append(@, w0),
                        !.keep = TRUE, !.conflict = FALSE]

\* RetainAffected that drops the ids behind a conflict instead of keeping
\* them.
RECURSIVE RetainAffected_drop(_, _, _, _)
RetainAffected_drop(st, falsified, affected, kept) ==
    IF affected = <<>> THEN [st EXCEPT !.kept = kept]
    ELSE IF st.conflict
         THEN RetainAffected_drop(st, falsified, Tail(affected), kept)
         ELSE CHOOSE left \in
                { RetainAffected_drop(u, falsified, Tail(affected),
                                      IF u.keep THEN Append(kept, Head(affected)) ELSE kept) :
                    u \in { update_clause(st, falsified, Head(affected)) } } : TRUE

\* The retain of process_watch_list over the batch taken from the bucket:
\* kept collects the ids that stay; after a conflict the rest stay unvisited.
RECURSIVE RetainAffected(_, _, _, _)
RetainAffected(st, falsified, affected, kept) ==
    IF affected = <<>> THEN [st EXCEPT !.kept = kept]
    ELSE IF st.conflict
         THEN RetainAffected(st, falsified, Tail(affected), Append(kept, Head(affected)))
         ELSE CHOOSE left \in
                { RetainAffected(u, falsified, Tail(affected),
                                 IF u.keep THEN Append(kept, Head(affected)) ELSE kept) :
                    u \in { update_clause(st, falsified, Head(affected)) } } : TRUE

\* process_watch_list: the solver state and queue it leaves; conflict is the
\* negation of what it returns.
process_watch_list(cs, a, wl, t, q, satisfied_lit) ==
    LET falsified_idx == lit_to_idx(-satisfied_lit)
        affected == wl[falsified_idx]
        st0 == [clauses |-> cs, assignments |-> a,
                watch_lists |-> [wl EXCEPT ![falsified_idx] = <<>>],
                trail |-> t, queue |-> q,
                keep |-> TRUE, conflict |-> FALSE, kept |-> <<>>]
        st == RetainAffected(st0, -satisfied_lit, affected, <<>>)
    IN [st EXCEPT !.watch_lists[falsified_idx] = @ \o st.kept]

\* ------------------------------------------------------ calls and returns

\* Return value v to the innermost caller.
Return(v) ==
    /\ pc' = Head(ret)
    /\ ret' = Tail(ret)
    /\ rv' = Some(v)

\* Call propagate(lit), to continue at label back.
CallPropagate(lit, back) ==
    /\ queue' = <<lit>>
    /\ pc' = "propagate"
    /\ ret' = <<back>> \o ret
    /\ rv' = None

\* Call undo_to_level(k), to continue at label back; rv is left as it is.
CallUndo(k, back) ==
    /\ level' = k
    /\ pc' = "undo_to_level"
    /\ ret' = <<back>> \o ret

\* solve has returned v.
SolveReturns(v) ==
    /\ pc' = "done"
    /\ ret' = <<>>
    /\ rv' = None
    /\ verdict' = Some(v)

\* --------------------------------------------------- initial_propagation

\* The units cut to the first unit clause of the store.
RECURSIVE UnitLiterals_first(_, _)
UnitLiterals_first(cs, id) ==
    IF id > Len(cs) THEN <<>>
    ELSE IF Len(cs[id].literals) = 1 THEN <<cs[id].literals[1]>>
         ELSE UnitLiterals_first(cs, id + 1)

RECURSIVE UnitLiterals(_, _)
UnitLiterals(cs, id) ==
    IF id > Len(cs) THEN <<>>
    ELSE IF Len(cs[id].literals) = 1
         THEN <<cs[id].literals[1]>> \o UnitLiterals(cs, id + 1)
         ELSE UnitLiterals(cs, id + 1)

\* solve calls initial_propagation, which looks for an empty clause and
\* collects the unit clauses.
InitialPropagation ==
    /\ pc = "solve"
    /\ IF \E id \in 1..Len(clauses) : clauses[id].literals = <<>>
       THEN /\ SolveReturns(FALSE)
            /\ UNCHANGED units
       ELSE /\ units' = UnitLiterals(clauses, 1)
            /\ pc' = "initial_units"
            /\ UNCHANGED <<ret, rv, verdict>>
    /\ UNCHANGED <<input, solver, decision_stack, queue, edge, save_lim, level,
                   dec, pair, probe_entry, decisions>>
    /\ UNCHANGED <<probes, first, history>>
    /\ Stamped

\* The loop of initial_propagation over the units: the return of the last
\* propagate is looked at, then the next unit is assigned and propagated.
InitialUnit ==
    /\ pc = "initial_units"
    /\ IF rv = Some(FALSE)
       THEN /\ SolveReturns(FALSE)
            /\ units' = <<>>
            /\ UNCHANGED <<assignments, trail, queue>>
       ELSE IF units = <<>>
       THEN /\ pc' = "loop"
            /\ rv' = None
            /\ UNCHANGED <<assignments, trail, queue, units, ret, verdict>>
       ELSE LET r == assign(assignments, trail, Head(units))
            IN IF ~r.ok
               THEN /\ SolveReturns(FALSE)
                    /\ units' = <<>>
                    /\ UNCHANGED <<assignments, trail, queue>>
               ELSE /\ assignments' = r.assignments
                    /\ trail' = r.trail
                    /\ units' = Tail(units)
                    /\ CallPropagate(Head(units), "initial_units")
                    /\ UNCHANGED verdict
    /\ UNCHANGED <<input, clauses, watch_lists, trail_lim, implications,
                   pending_implications, decision_stack, edge, save_lim, level,
                   dec, pair, probe_entry, decisions>>
    /\ UNCHANGED <<probes, first, history>>
    /\ Stamped

\* ------------------------------------------------------------- propagate

\* What queue.pop() leaves of the queue.
QueueRest(q) == SubSeq(q, 1, Len(q) - 1)

\* One turn of propagate's loop: pop a literal and process its watch list.
\* An emptied queue ends the loop with success, a conflict with failure.
Propagate ==
    /\ pc = "propagate"
    /\ \E r \in { process_watch_list(clauses, assignments, watch_lists, trail,
                                      QueueRest(queue), queue[Len(queue)]) } :
          /\ clauses' = r.clauses
          /\ assignments' = r.assignments
          /\ watch_lists' = r.watch_lists
          /\ trail' = r.trail
          /\ IF r.conflict
             THEN /\ queue' = <<>>
                  /\ Return(FALSE)
             ELSE IF r.queue = <<>>
             THEN /\ queue' = <<>>
                  /\ Return(TRUE)
             ELSE /\ queue' = r.queue
                  /\ UNCHANGED <<pc, ret, rv>>
    /\ UNCHANGED <<input, trail_lim, implications, pending_implications,
                   decision_stack, units, edge, save_lim, level, dec, pair,
                   verdict, probe_entry, decisions>>
    /\ UNCHANGED <<probes, first, history>>
    /\ Stamped

\* --------------------------------------------------------- undo_to_level

\* PopTrail with the assignment of a popped variable left in the table.
RECURSIVE PopTrail_ghost(_, _, _)
PopTrail_ghost(a, t, pos) ==
    IF Len(t) > pos
    THEN PopTrail_ghost(a, SubSeq(t, 1, Len(t) - 1), pos)
    ELSE [assignments |-> a, trail |-> t]

\* The trail cut back to length pos.
RECURSIVE PopTrail(_, _, _)
PopTrail(a, t, pos) ==
    IF Len(t) > pos
    THEN PopTrail([a EXCEPT ![t[Len(t)]] = None], SubSeq(t, 1, Len(t) - 1), pos)
    ELSE [assignments |-> a, trail |-> t]

\* undo_to_level with the checkpoints beyond k left in place.
undo_to_level_keep(a, t, lim, k) ==
    IF k >= Len(lim)
    THEN [assignments |-> a, trail |-> t, trail_lim |-> lim]
    ELSE LET r == PopTrail(a, t, lim[k + 1])
         IN [assignments |-> r.assignments, trail |-> r.trail, trail_lim |-> lim]

\* undo_to_level that pops the whole trail whatever the checkpoint says.
undo_to_level_all(a, t, lim, k) ==
    IF k >= Len(lim)
    THEN [assignments |-> a, trail |-> t, trail_lim |-> lim]
    ELSE LET r == PopTrail(a, t, 0)
         IN [assignments |-> r.assignments, trail |-> r.trail,
             trail_lim |-> SubSeq(lim, 1, k)]

undo_to_level(a, t, lim, k) ==
    IF k >= Len(lim)
    THEN [assignments |-> a, trail |-> t, trail_lim |-> lim]
    ELSE LET r == PopTrail(a, t, lim[k + 1])
         IN [assignments |-> r.assignments, trail |-> r.trail,
             trail_lim |-> SubSeq(lim, 1, k)]

UndoToLevel ==
    /\ pc = "undo_to_level"
    /\ LET r == undo_to_level(assignments, trail, trail_lim, level)
       IN /\ assignments' = r.assignments
          /\ trail' = r.trail
          /\ trail_lim' = r.trail_lim
    /\ pc' = Head(ret)
    /\ ret' = Tail(ret)
    /\ level' = 0
    /\ UNCHANGED <<input, clauses, watch_lists, implications,
                   pending_implications, decision_stack, rv, queue, units, edge,
                   save_lim, dec, pair, verdict, probe_entry, decisions>>
    /\ UNCHANGED <<probes, first, history>>
    /\ Stamped

\* ------------------------------------------------- solve: the main loop

\* Unassigned that never reports variable 1.
RECURSIVE Unassigned_skip(_, _)
Unassigned_skip(a, v) ==
    IF v > Len(a) THEN <<>>
    ELSE IF a[v] = None /\ v # 1 THEN <<v>> \o Unassigned_skip(a, v + 1)
         ELSE Unassigned_skip(a, v + 1)

\* The unassigned variables in ascending order, cut to the first two.
RECURSIVE Unassigned(_, _)
Unassigned(a, v) ==
    IF v > Len(a) THEN <<>>
    ELSE IF a[v] = None THEN <<v>> \o Unassigned(a, v + 1)
         ELSE Unassigned(a, v + 1)

pick_branching_pair(a) ==
    LET free == Unassigned(a, 1)
    IN <<IF Len(free) >= 1 THEN Some(free[1]) ELSE None,
         IF Len(free) >= 2 THEN Some(free[2]) ELSE None>>

\* The pending set emptied instead of losing one candidate.
remove_all(pending, e) == {}

\* pending_implications.remove(&edge)
remove(pending, e) == pending \ {e}

\* A pending candidate is taken (in any order), its Implication frame and
\* checkpoint are pushed and test_implication is called.
Probe ==
    /\ pc = "loop"
    /\ pending_implications # {}
    /\ \E e \in pending_implications :
        /\ pending_implications' = remove(pending_implications, e)
        /\ decision_stack' = Append(decision_stack, [kind |-> "Implication", edge |-> e])
        /\ edge' = Some(e)
        /\ probes' = Append(probes, e)
        /\ history' = Append(history,
                             [kind |-> "Implication", assignments |-> assignments,
                              trail |-> trail, tried |-> <<e>>])
    /\ trail_lim' = Append(trail_lim, Len(trail))
    /\ pc' = "test_implication"
    /\ ret' = <<"probed">> \o ret
    /\ UNCHANGED <<input, clauses, assignments, watch_lists, trail, implications,
                   rv, queue, units, save_lim, level, dec, pair, verdict,
                   probe_entry, decisions>>
    /\ UNCHANGED first
    /\ Stamped

\* test_implication has returned: a proven edge is recorded.
Probed ==
    /\ pc = "probed"
    /\ implications' = IF rv = Some(TRUE) THEN implications \cup {edge[1]}
                       ELSE implications
    /\ edge' = None
    /\ rv' = None
    /\ pc' = "loop"
    /\ UNCHANGED <<input, clauses, assignments, watch_lists, trail, trail_lim,
                   pending_implications, decision_stack, ret, queue, units,
                   save_lim, level, dec, pair, verdict, probe_entry, decisions>>
    /\ UNCHANGED <<probes, first, history>>
    /\ Stamped

\* No candidate is pending: SAT when no variable is free, else a Pair or a
\* Single frame is opened and its first alternative tried.
Branch ==
    /\ pc = "loop"
    /\ pending_implications = {}
    /\ LET picked == pick_branching_pair(assignments)
       IN IF picked[1] = None
          THEN /\ SolveReturns(TRUE)
               /\ UNCHANGED <<assignments, trail, trail_lim, decision_stack,
                              queue, pair, decisions, history>>
          ELSE IF picked[2] # None
          THEN /\ decision_stack' = Append(decision_stack,
                      [kind |-> "Pair", var1 |-> picked[1][1], var2 |-> picked[2][1],
                       tried_comb |-> 0, tried_all |-> FALSE])
               /\ trail_lim' = Append(trail_lim, Len(trail))
               /\ pair' = Some([comb |-> 0, var1 |-> picked[1][1], var2 |-> picked[2][1]])
               /\ decisions' = Append(decisions, <<picked[1][1], picked[2][1], 0>>)
               /\ history' = Append(history,
                                    [kind |-> "Pair", assignments |-> assignments,
                                     trail |-> trail, tried |-> <<>>])
               /\ pc' = "assign_pair"
               /\ ret' = <<"branched">> \o ret
               /\ UNCHANGED <<assignments, trail, queue, rv, verdict>>
          ELSE LET var1 == picked[1][1]
                   r == assign(assignments, trail, make_lit(var1, TRUE))
               IN /\ decision_stack' = Append(decision_stack,
                         [kind |-> "Single", var |-> var1,
                          tried_polarity |-> TRUE, tried_both |-> FALSE])
                  /\ trail_lim' = Append(trail_lim, Len(trail))
                  /\ decisions' = Append(decisions, <<var1, TRUE>>)
                  /\ history' = Append(history,
                                       [kind |-> "Single", assignments |-> assignments,
                                        trail |-> trail, tried |-> << <<TRUE>> >>])
                  /\ assignments' = r.assignments
                  /\ trail' = r.trail
                  /\ IF r.ok
                     THEN CallPropagate(make_lit(var1, TRUE), "branched")
                     ELSE /\ pc' = "backtrack"
                          /\ UNCHANGED <<ret, rv, queue>>
                  /\ UNCHANGED <<pair, verdict>>
    /\ UNCHANGED <<input, clauses, watch_lists, implications,
                   pending_implications, units, edge, save_lim, level, dec,
                   probe_entry>>
    /\ UNCHANGED <<probes, first>>
    /\ Stamped

\* The first alternative of a new frame has been tried: on failure solve
\* calls backtrack, on success the loop goes on.
Branched ==
    /\ pc = "branched"
    /\ pc' = IF rv = Some(TRUE) THEN "loop" ELSE "backtrack"
    /\ rv' = None
    /\ UNCHANGED <<input, solver, decision_stack, ret, locals, verdict,
                   probe_entry, decisions>>
    /\ UNCHANGED <<probes, first, history>>
    /\ Stamped

\* ------------------------------------------------------------ assign_pair

\* The combinations with the last one repeating the third.
Polarities_repeat(comb) ==
    CASE comb = 0 -> Some(<<TRUE, TRUE>>)
      [] comb = 1 -> Some(<<TRUE, FALSE>>)
      [] comb = 2 -> Some(<<FALSE, TRUE>>)
      [] comb = 3 -> Some(<<FALSE, TRUE>>)
      [] OTHER -> None

Polarities(comb) ==
    CASE comb = 0 -> Some(<<TRUE, TRUE>>)
      [] comb = 1 -> Some(<<TRUE, FALSE>>)
      [] comb = 2 -> Some(<<FALSE, TRUE>>)
      [] comb = 3 -> Some(<<FALSE, FALSE>>)
      [] OTHER -> None

\* assign_pair to the propagation of its first literal.
AssignPair ==
    /\ pc = "assign_pair"
    /\ LET p == Polarities(pair[1].comb)
       IN IF p = None
          THEN /\ Return(FALSE)
               /\ pair' = None
               /\ UNCHANGED <<assignments, trail, queue, history>>
          ELSE LET lit1 == make_lit(pair[1].var1, p[1][1])
                   r == assign(assignments, trail, lit1)
               IN /\ history' = [history EXCEPT
                                    ![Len(history)].tried = Append(@, p[1])]
                  /\ IF ~r.ok
                     THEN /\ Return(FALSE)
                          /\ pair' = None
                          /\ UNCHANGED <<assignments, trail, queue>>
                     ELSE /\ assignments' = r.assignments
                          /\ trail' = r.trail
                          /\ CallPropagate(lit1, "assign_second")
                          /\ UNCHANGED pair
    /\ UNCHANGED <<input, clauses, watch_lists, trail_lim, implications,
                   pending_implications, decision_stack, units, edge, save_lim,
                   level, dec, verdict, probe_entry, decisions>>
    /\ UNCHANGED <<probes, first>>
    /\ Stamped

\* assign_pair from the return of its first propagate: the second literal
\* is assigned and propagated, and that propagate's value is assign_pair's.
AssignSecond ==
    /\ pc = "assign_second"
    /\ LET p == Polarities(pair[1].comb)
           lit2 == make_lit(pair[1].var2, p[1][2])
           r == assign(assignments, trail, lit2)
       IN IF rv = Some(FALSE) \/ ~r.ok
          THEN /\ Return(FALSE)
               /\ UNCHANGED <<assignments, trail, queue>>
          ELSE /\ assignments' = r.assignments
               /\ trail' = r.trail
               /\ queue' = <<lit2>>
               /\ pc' = "propagate"
               /\ rv' = None
               /\ UNCHANGED ret
    /\ pair' = None
    /\ UNCHANGED <<input, clauses, watch_lists, trail_lim, implications,
                   pending_implications, decision_stack, units, edge, save_lim,
                   level, dec, verdict, probe_entry, decisions>>
    /\ UNCHANGED <<probes, first, history>>
    /\ Stamped

\* ------------------------------------------------------- test_implication

\* test_implication to the propagation of from = true.  A failed assign
\* undoes to save_lim and returns false.
TestImplication ==
    /\ pc = "test_implication"
    /\ probe_entry' = Some([assignments |-> assignments, trail |-> trail,
                            checkpoints |-> Len(trail_lim)])
    /\ save_lim' = Len(trail_lim)
    /\ trail_lim' = Append(trail_lim, Len(trail))
    /\ LET lit_from == make_lit(edge[1].from, TRUE)
           r == assign(assignments, trail, lit_from)
       IN IF ~r.ok
          THEN /\ CallUndo(Len(trail_lim), "probe_return")
               /\ rv' = Some(FALSE)
               /\ UNCHANGED <<assignments, trail, queue>>
          ELSE /\ assignments' = r.assignments
               /\ trail' = r.trail
               /\ CallPropagate(lit_from, "probe_from")
               /\ UNCHANGED level
    /\ UNCHANGED <<input, clauses, watch_lists, implications,
                   pending_implications, decision_stack, units, edge, dec, pair,
                   verdict, decisions>>
    /\ UNCHANGED <<probes, first, history>>
    /\ Stamped

\* The second assumption taken with the polarity of the first.
lit_to_true(e) == make_lit(e.to, TRUE)

\* The second assumption of a probe: to = false.
lit_to(e) == make_lit(e.to, FALSE)

\* test_implication from the return of the first propagate: a conflict
\* undoes and returns false, else to = false is assigned and propagated.
ProbeFrom ==
    /\ pc = "probe_from"
    /\ LET r == assign(assignments, trail, lit_to(edge[1]))
       IN IF rv = Some(FALSE)
          THEN /\ CallUndo(save_lim, "probe_return")
               /\ rv' = Some(FALSE)
               /\ UNCHANGED <<assignments, trail, queue>>
          ELSE IF ~r.ok
          THEN /\ CallUndo(save_lim, "probe_return")
               /\ rv' = Some(TRUE)
               /\ UNCHANGED <<assignments, trail, queue>>
          ELSE /\ assignments' = r.assignments
               /\ trail' = r.trail
               /\ CallPropagate(lit_to(edge[1]), "probe_to")
               /\ UNCHANGED level
    /\ UNCHANGED <<input, clauses, watch_lists, trail_lim, implications,
                   pending_implications, decision_stack, units, edge, save_lim,
                   dec, pair, verdict, probe_entry, decisions>>
    /\ UNCHANGED <<probes, first, history>>
    /\ Stamped

\* test_implication from the return of the second propagate: has_conflict
\* is kept for the return and the probe is undone.
ProbeTo ==
    /\ pc = "probe_to"
    /\ CallUndo(save_lim, "probe_return")
    /\ rv' = Some(rv = Some(FALSE))
    /\ UNCHANGED <<input, solver, decision_stack, queue, units, edge, save_lim,
                   dec, pair, verdict, probe_entry, decisions>>
    /\ UNCHANGED <<probes, first, history>>
    /\ Stamped

\* test_implication returns the value it kept.
ProbeReturn ==
    /\ pc = "probe_return"
    /\ pc' = Head(ret)
    /\ ret' = Tail(ret)
    /\ save_lim' = 0
    /\ UNCHANGED <<input, solver, decision_stack, rv, queue, units, edge, level,
                   dec, pair, verdict, probe_entry, decisions>>
    /\ UNCHANGED <<probes, first, history>>
    /\ Stamped

\* -------------------------------------------------------------- backtrack

\* The level of the frame above the stack it was popped from, taken before
\* the pop.
level_top(stack) == Len(stack)

\* let level = stack.len(), taken after the pop: the level of the frame
\* popped from stack.
level_below(stack) == Len(stack) - 1

\* One turn of backtrack's loop up to its undo_to_level: an empty stack
\* returns false to solve, which returns false; else the top frame is
\* popped and the trail undone to its level.
Backtrack ==
    /\ pc = "backtrack"
    /\ IF decision_stack = <<>>
       THEN /\ SolveReturns(FALSE)
            /\ UNCHANGED <<decision_stack, dec, level, history>>
       ELSE LET d == decision_stack[Len(decision_stack)]
                again == \/ d.kind = "Implication"
                         \/ d.kind = "Single" /\ d.tried_both
                         \/ d.kind = "Pair" /\ d.tried_all
            IN /\ decision_stack' = SubSeq(decision_stack, 1, Len(decision_stack) - 1)
               /\ dec' = IF again THEN None ELSE Some(d)
               /\ history' = IF again THEN SubSeq(history, 1, Len(history) - 1)
                             ELSE history
               /\ CallUndo(level_below(decision_stack),
                           IF again THEN "backtrack"
                           ELSE IF d.kind = "Single" THEN "retry_single"
                           ELSE "retry_pair")
               /\ UNCHANGED <<rv, verdict>>
    /\ UNCHANGED <<input, solver, queue, units, edge, save_lim, pair,
                   probe_entry, decisions>>
    /\ UNCHANGED <<probes, first>>
    /\ Stamped

\* A Single frame's other polarity: checkpoint, assign, propagate.  The
\* frame goes back on the stack once the attempt is over.
RetrySingle ==
    /\ pc = "retry_single"
    /\ LET d == [dec[1] EXCEPT !.tried_polarity = ~@, !.tried_both = TRUE]
           lit == make_lit(d.var, d.tried_polarity)
           r == assign(assignments, trail, lit)
       IN /\ trail_lim' = Append(trail_lim, Len(trail))
          /\ decisions' = Append(decisions, <<d.var, d.tried_polarity>>)
          /\ history' = [history EXCEPT
                            ![Len(history)].tried = Append(@, <<d.tried_polarity>>)]
          /\ assignments' = r.assignments
          /\ trail' = r.trail
          /\ IF r.ok
             THEN /\ dec' = Some(d)
                  /\ CallPropagate(lit, "retried")
                  /\ UNCHANGED decision_stack
             ELSE /\ decision_stack' = Append(decision_stack, d)
                  /\ dec' = None
                  /\ pc' = "backtrack"
                  /\ UNCHANGED <<ret, rv, queue>>
    /\ UNCHANGED <<input, clauses, watch_lists, implications,
                   pending_implications, units, edge, save_lim, level, pair,
                   verdict, probe_entry>>
    /\ UNCHANGED <<probes, first>>
    /\ Stamped

\* The Pair frame moved on by two combinations.
next_comb_skip(d) == [d EXCEPT !.tried_comb = @ + 2]

\* The Pair frame moved on to its next combination (*tried_comb += 1).
next_comb(d) == [d EXCEPT !.tried_comb = @ + 1]

\* The used-up Pair frame put back with its last combination still to try.
exhausted_unmarked(d) == [d EXCEPT !.tried_comb = 3]

\* The Pair frame whose combinations are used up, marked for the loop.
exhausted(d) == [d EXCEPT !.tried_all = TRUE]

\* A Pair frame's next combination; after the fourth the frame is marked
\* tried_all and pushed back for the loop to drop.
RetryPair ==
    /\ pc = "retry_pair"
    /\ LET d == next_comb(dec[1])
       IN IF d.tried_comb >= 4
          THEN /\ decision_stack' = Append(decision_stack, exhausted(d))
               /\ dec' = None
               /\ pc' = "backtrack"
               /\ UNCHANGED <<trail_lim, pair, ret, decisions>>
          ELSE /\ trail_lim' = Append(trail_lim, Len(trail))
               /\ dec' = Some(d)
               /\ pair' = Some([comb |-> d.tried_comb, var1 |-> d.var1, var2 |-> d.var2])
               /\ decisions' = Append(decisions, <<d.var1, d.var2, d.tried_comb>>)
               /\ pc' = "assign_pair"
               /\ ret' = <<"retried">> \o ret
               /\ UNCHANGED decision_stack
    /\ UNCHANGED <<input, clauses, assignments, watch_lists, trail, implications,
                   pending_implications, rv, queue, units, edge, save_lim, level,
                   verdict, probe_entry>>
    /\ UNCHANGED <<probes, first, history>>
    /\ Stamped

\* The retried frame is pushed back; success returns true to solve, whose
\* loop goes on, failure goes round backtrack's loop.
Retried ==
    /\ pc = "retried"
    /\ decision_stack' = Append(decision_stack, dec[1])
    /\ dec' = None
    /\ pc' = IF rv = Some(TRUE) THEN "loop" ELSE "backtrack"
    /\ rv' = None
    /\ UNCHANGED <<input, solver, ret, queue, units, edge, save_lim, level, pair,
                   verdict, probe_entry, decisions>>
    /\ UNCHANGED <<probes, first, history>>
    /\ Stamped

\* ------------------------------------------------------------ print_model

\* The literals print_model prints before the closing 0: one for each
\* assigned variable from v on, in ascending order.
RECURSIVE print_model(_, _)
print_model(a, v) ==
    IF v > Len(a) THEN <<>>
    ELSE IF a[v] # None
         THEN <<make_lit(v, a[v][1])>> \o print_model(a, v + 1)
         ELSE print_model(a, v + 1)

\* ------------------------------------------------------ the specification

Next ==
    \/ InitialPropagation
    \/ InitialUnit
    \/ Propagate
    \/ UndoToLevel
    \/ Probe
    \/ TestImplication
    \/ ProbeFrom
    \/ ProbeTo
    \/ ProbeReturn
    \/ Probed
    \/ Branch
    \/ Branched
    \/ AssignPair
    \/ AssignSecond
    \/ Backtrack
    \/ RetrySingle
    \/ RetryPair
    \/ Retried

Spec == Init /\ [][Next]_vars

\* solve runs as long as a step is left: the program is sequential and
\* nothing but its own steps can hold it up.
InitLive == Start(LiveInputs)

SpecLive == InitLive /\ [][Next]_vars /\ WF_vars(Next)

\* A second run of solve on the same clause store: the solver is built anew
\* from the input, and the outcome of the first run is kept to compare.
Rerun ==
    /\ pc = "done"
    /\ first = None
    /\ first' = Some([verdict |-> verdict, assignments |-> assignments,
                      decisions |-> decisions, probes |-> probes])
    /\ clauses' = new(input).clauses
    /\ assignments' = new(input).assignments
    /\ watch_lists' = new(input).watch_lists
    /\ trail' = <<>>
    /\ trail_lim' = <<>>
    /\ implications' = {}
    /\ pending_implications' = new(input).pending_implications
    /\ decision_stack' = <<>>
    /\ pc' = "solve"
    /\ verdict' = None
    /\ probe_entry' = None
    /\ decisions' = <<>>
    /\ probes' = <<>>
    /\ history' = <<>>
    /\ stamp' = [v \in DOMAIN stamp |-> 0]
    /\ UNCHANGED <<input, ret, rv, locals>>

NextTwice == Next \/ Rerun

SpecTwice == Init /\ [][NextTwice]_vars

\* ---------------------------------------------------------------- claims

\* Literal lit is true under the table a.
LitTrue(a, lit) == a[lit_to_var(lit)] = Some(lit > 0)

LitFalse(a, lit) == a[lit_to_var(lit)] = Some(~(lit > 0))

\* Some total assignment of the declared variables satisfies every stored
\* clause.
Satisfiable ==
    \E m \in [DOMAIN assignments -> BOOLEAN] :
        \A cid \in 1..Len(clauses) :
            \E i \in 1..Len(clauses[cid].literals) :
                m[lit_to_var(clauses[cid].literals[i])] = (clauses[cid].literals[i] > 0)

\* C1 (soundness): when solve has returned true, every stored clause has a
\* literal that the final assignment table makes true.
C1_Soundness ==
    verdict = Some(TRUE) =>
        \A cid \in 1..Len(clauses) :
            \E i \in 1..Len(clauses[cid].literals) :
                LitTrue(assignments, clauses[cid].literals[i])

\* SAT was reported for three or more clauses after a failed alternative.
C1_Witness ==
    /\ verdict = Some(TRUE)
    /\ Len(clauses) >= 3
    /\ Len(decisions) >= 3

\* C2 (completeness): when solve has returned false, no total assignment of
\* the variables 1..n satisfies all stored clauses.
C2_Completeness == verdict = Some(FALSE) => ~Satisfiable

\* UNSAT was reported after the search went through every alternative of a
\* Pair frame, with nothing assigned at load time.
C2_Witness ==
    /\ verdict = Some(FALSE)
    /\ Len(decisions) >= 4
    /\ trail = <<>>

\* C3 (no-leak backtracking): a call undo_to_level(k) with k smaller than
\* the number of checkpoints leaves unassigned every variable assigned when
\* checkpoint k existed, and leaves every variable assigned before that with
\* the value it had.
C3_NoLeak ==
    [][(pc = "undo_to_level" /\ level < Len(trail_lim)) =>
        \A v \in DOMAIN assignments :
            /\ (assignments[v] # None /\ stamp[v] > level) => assignments'[v] = None
            /\ (assignments[v] # None /\ stamp[v] <= level) =>
                    assignments'[v] = assignments[v]]_vars

\* backtrack has just undone the first polarity of a Single frame (whose
\* variable was assigned) while a variable set under an earlier frame stays.
C3_Witness ==
    /\ pc = "retry_single"
    /\ assignments[dec[1].var] = None
    /\ \E w \in DOMAIN assignments : assignments[w] # None /\ stamp[w] > 0

\* propagate has just returned success to its caller.
PropagateSucceeded ==
    /\ rv = Some(TRUE)
    /\ pc \in {"initial_units", "assign_second", "branched", "probe_from",
               "probe_to", "retried"}

\* C4 (watch invariant): right after a propagate that returned success, no
\* clause of two or more literals has both its watched literals false.
C4_WatchInvariant ==
    PropagateSucceeded =>
        \A cid \in 1..Len(clauses) :
            Len(clauses[cid].literals) >= 2 =>
                ~ /\ LitFalse(assignments,
                        clauses[cid].literals[clauses[cid].watched_indices[1] + 1])
                  /\ LitFalse(assignments,
                        clauses[cid].literals[clauses[cid].watched_indices[2] + 1])

\* A propagate succeeded in a retried alternative, after a conflict and a
\* backtrack, and left a clause with one watched literal false and a watch
\* moved from where it was at load time.
C4_Witness ==
    /\ PropagateSucceeded
    /\ pc = "retried"
    /\ \E cid \in 1..Len(clauses) :
        /\ Len(clauses[cid].literals) >= 3
        /\ clauses[cid].watched_indices # <<0, 1>>
        /\ LitFalse(assignments,
                    clauses[cid].literals[clauses[cid].watched_indices[2] + 1])

\* C5 (idempotent probing): when test_implication has returned, the
\* assignment table, the trail and the number of checkpoints are those of
\* its entry.
C5_ProbeLeavesNoTrace ==
    pc = "probed" =>
        /\ assignments = probe_entry[1].assignments
        /\ trail = probe_entry[1].trail
        /\ Len(trail_lim) = probe_entry[1].checkpoints

\* A probe that proved its edge has returned, with assignments of the load
\* time in place.
C5_Witness ==
    /\ pc = "probed"
    /\ rv = Some(TRUE)
    /\ trail # <<>>
    /\ assignments[edge[1].from] = None

\* C6 (empty clause means UNSAT): when the input holds a clause line of
\* zero literals, solve reports UNSAT.
C6_EmptyClauseUnsat ==
    (verdict # None /\ \E i \in 1..Len(input.lines) : input.lines[i] = <<>>) =>
        verdict = Some(FALSE)

\* Line w of the input has every literal but the k-th falsified by a unit
\* line of the input.
AllButFalsified(w, k) ==
    \A j \in (1..Len(w)) \ {k} :
        \E u \in 1..Len(input.lines) : input.lines[u] = <<-w[j]>>

\* C7 (long clauses take part in propagation): when initial propagation has
\* ended without conflict and no frame has been opened, an input clause of
\* more than three literals whose literals but one are falsified by unit
\* clauses is in the clause store and its remaining literal is true.
C7_LongClausePropagates ==
    (pc = "loop" /\ decision_stack = <<>>) =>
        \A i \in 1..Len(input.lines) :
            \A k \in 1..Len(input.lines[i]) :
                (Len(input.lines[i]) > MaxWidth /\ AllButFalsified(input.lines[i], k)) =>
                    /\ \E cid \in 1..Len(clauses) : clauses[cid].literals = input.lines[i]
                    /\ LitTrue(assignments, input.lines[i][k])

\* Unit propagation by definition, over the stored clauses from the table a:
\* whether it ends in a clause with every literal false.
AllFalse(a, c) == \A i \in 1..Len(c.literals) : LitFalse(a, c.literals[i])

IsUnitAt(a, c, i) ==
    /\ a[lit_to_var(c.literals[i])] = None
    /\ \A j \in (1..Len(c.literals)) \ {i} : LitFalse(a, c.literals[j])

RECURSIVE UnitsConflict(_)
UnitsConflict(a) ==
    IF \E cid \in 1..Len(clauses) : AllFalse(a, clauses[cid]) THEN TRUE
    ELSE LET forced == { l \in Lits(input.variable_count) :
                            \E cid \in 1..Len(clauses) :
                                \E i \in 1..Len(clauses[cid].literals) :
                                    /\ clauses[cid].literals[i] = l
                                    /\ IsUnitAt(a, clauses[cid], i) }
         IN IF forced = {} THEN FALSE
            ELSE LET l == CHOOSE x \in forced : TRUE
                 IN UnitsConflict([a EXCEPT ![lit_to_var(l)] = Some(l > 0)])

LoadConflict == UnitsConflict([v \in DOMAIN assignments |-> None])

\* C8 (conflicting load-time units): when propagating the unit clauses of
\* the load time reaches a conflict, solve returns false, and no candidate
\* is ever probed and no frame or checkpoint ever opened.
C8_LoadConflictUnsat ==
    LoadConflict =>
        /\ pc = "done" => verdict = Some(FALSE)
        /\ decision_stack = <<>>
        /\ trail_lim = <<>>
        /\ decisions = <<>>
        /\ implications = {}
        /\ pending_implications = new(input).pending_implications

\* solve has returned on a load-time conflict met after a first assignment,
\* with a candidate still pending.
C8_Witness ==
    /\ LoadConflict
    /\ pc = "done"
    /\ trail # <<>>
    /\ pending_implications # {}

\* C9 (determinism): a second run of solve on the same clause store ends
\* with the verdict, the assignment table and the sequence of branching
\* decisions of the first, whatever order each run takes the pending
\* candidates in.
C9_Determinism ==
    (pc = "done" /\ first # None) =>
        /\ verdict = first[1].verdict
        /\ assignments = first[1].assignments
        /\ decisions = first[1].decisions

\* Two runs that took the candidates in different orders have ended, after
\* a failed alternative.
C9_Witness ==
    /\ pc = "done"
    /\ first # None
    /\ probes # first[1].probes
    /\ Len(decisions) >= 2

\* C10 (termination): every call of propagate returns and solve ends with
\* a verdict.
C10_Termination ==
    /\ <>(pc = "done" /\ verdict # None)
    /\ [](pc = "propagate" => <>(pc # "propagate"))

\* solve has ended after backtracking through frames that were used up.
C10_Witness ==
    /\ pc = "done"
    /\ verdict # None
    /\ Len(decisions) >= 6

\* C11 (total model on SAT): when solve has returned true, every variable
\* 1..n is assigned, and the printed model holds exactly one literal for
\* each declared variable.
C11_TotalModel ==
    verdict = Some(TRUE) =>
        /\ \A v \in 1..input.variable_count : assignments[v] # None
        /\ Len(print_model(assignments, 1)) = input.variable_count
        /\ \A v \in 1..input.variable_count :
            Cardinality({ i \in 1..Len(print_model(assignments, 1)) :
                            lit_to_var(print_model(assignments, 1)[i]) = v }) = 1

\* SAT was reported with variable 1 set by a branch and a later variable set
\* by a Single frame.
C11_Witness ==
    /\ verdict = Some(TRUE)
    /\ stamp[1] > 0
    /\ \E k \in 1..Len(decision_stack) : decision_stack[k].kind = "Single"

\* Clause c has literal lit at one of its two watch slots.
Watches(c, lit) ==
    \/ c.literals[c.watched_indices[1] + 1] = lit
    \/ c.literals[c.watched_indices[2] + 1] = lit

\* The literal the step of propagate about to run takes as falsified.
Falsified == -queue[Len(queue)]

\* How often id cid stands among the first k of the bucket of Falsified.
TimesInBatch(cid, k) ==
    Cardinality({ i \in 1..k : watch_lists[lit_to_idx(Falsified)][i] = cid })

\* C12 as stated (visit counter, every watcher counted): over every step, a
\* clause's visit_count grows by one when the step takes from the queue a
\* literal whose negation the clause watches, and is unchanged otherwise.
C12_VisitEachTime ==
    [][\A cid \in 1..Len(clauses) :
         clauses'[cid].visit_count =
            clauses[cid].visit_count +
                (IF pc = "propagate" /\ Watches(clauses[cid], Falsified)
                 THEN 1 ELSE 0)]_vars

\* C12 (visit counter, amended): a step that is not a step of propagate
\* leaves every visit_count as it is; a step of propagate counts one
\* inspection for each clause of the bucket of the falsified literal up to
\* the clause found in conflict, all of the bucket when there is no
\* conflict, and leaves the clauses behind the conflict and the clauses that
\* do not watch the literal as they are.
C12_VisitCount ==
    [][IF pc = "propagate"
       THEN LET bucket == watch_lists[lit_to_idx(Falsified)]
            IN /\ \A cid \in 1..Len(clauses) :
                    (~Watches(clauses[cid], Falsified)) =>
                        clauses'[cid].visit_count = clauses[cid].visit_count
               /\ \E k \in 0..Len(bucket) :
                    /\ (k < Len(bucket)) => (k > 0 /\ rv' = Some(FALSE))
                    /\ \A cid \in 1..Len(clauses) :
                         clauses'[cid].visit_count =
                            clauses[cid].visit_count + TimesInBatch(cid, k)
       ELSE \A cid \in 1..Len(clauses) :
               clauses'[cid].visit_count = clauses[cid].visit_count]_vars

\* A clause of three literals was inspected once: its third literal, not
\* watched, was made false under an earlier checkpoint without the counter
\* moving, and a watched literal was made false later.
C12_Witness ==
    \E cid \in 1..Len(clauses) :
        /\ Len(clauses[cid].literals) = 3
        /\ clauses[cid].visit_count = 1
        /\ LitFalse(assignments, clauses[cid].literals[3])
        /\ \E i \in 1..2 :
            /\ LitFalse(assignments, clauses[cid].literals[i])
            /\ stamp[lit_to_var(clauses[cid].literals[3])]
                  < stamp[lit_to_var(clauses[cid].literals[i])]

\* How often id cid is registered in the bucket of literal l.
Registered(cid, l) ==
    Cardinality({ i \in 1..Len(watch_lists[lit_to_idx(l)]) :
                    watch_lists[lit_to_idx(l)][i] = cid })

\* How many of the watch slots of clause c hold literal l; the two slots of
\* a clause of one literal are one slot.
SlotsHolding(c, l) ==
    Cardinality({ s \in (IF Len(c.literals) = 1 THEN {1} ELSE {1, 2}) :
                    c.literals[c.watched_indices[s] + 1] = l })

\* C13 (watch-index consistency): in every state between propagation steps
\* a clause is registered in the bucket of literal l exactly when l is at
\* one of its two watch slots, once for each slot that holds l, so that no
\* clause of a drained batch is lost or left in a bucket it does not watch.
C13_WatchIndex ==
    \A cid \in 1..Len(clauses) :
        \A l \in Lits(input.variable_count) :
            /\ (Registered(cid, l) > 0) <=> Watches(clauses[cid], l)
            /\ Registered(cid, l) = SlotsHolding(clauses[cid], l)

\* A propagate has returned a conflict under a checkpoint, leaving in the
\* bucket of a false literal a clause that was behind the conflict and was
\* not inspected, while another clause has moved a watch.
C13_Witness ==
    /\ rv = Some(FALSE)
    /\ trail_lim # <<>>
    /\ \E cid \in 1..Len(clauses) :
        /\ clauses[cid].visit_count = 0
        /\ \E l \in Lits(input.variable_count) :
            /\ LitFalse(assignments, l)
            /\ Registered(cid, l) > 0
    /\ \E cid \in 1..Len(clauses) :
        /\ Len(clauses[cid].literals) = 3
        /\ clauses[cid].watched_indices # <<0, 1>>

\* Clause c has one unassigned literal and every other literal false.
IsUnit(a, c) == \E i \in 1..Len(c.literals) : IsUnitAt(a, c, i)

\* C14 as stated (propagation fixed point at every success of propagate
\* during solve): right after a propagate that returned success no stored
\* clause has all its literals false and none has all its literals false
\* but one that is unassigned.
C14_FixedPointAlways ==
    PropagateSucceeded =>
        \A cid \in 1..Len(clauses) :
            /\ ~AllFalse(assignments, clauses[cid])
            /\ ~IsUnit(assignments, clauses[cid])

\* C14 (propagation fixed point, amended): right after a propagate that
\* returned success no stored clause has all its literals false, and a
\* clause with all its literals false but one that is unassigned is a
\* clause of one literal that the loop of initial_propagation has still to
\* assign.
C14_FixedPoint ==
    PropagateSucceeded =>
        \A cid \in 1..Len(clauses) :
            /\ ~AllFalse(assignments, clauses[cid])
            /\ IsUnit(assignments, clauses[cid]) =>
                /\ pc = "initial_units"
                /\ Len(clauses[cid].literals) = 1
                /\ \E i \in 1..Len(units) : units[i] = clauses[cid].literals[1]

\* A propagate that forced a literal through a clause of three literals has
\* returned success to a retried alternative.
C14_Witness ==
    /\ PropagateSucceeded
    /\ pc = "retried"
    /\ \E cid \in 1..Len(clauses) :
        /\ Len(clauses[cid].literals) = 3
        /\ \E i \in 1..3 :
            /\ LitTrue(assignments, clauses[cid].literals[i])
            /\ \A j \in (1..3) \ {i} : LitFalse(assignments, clauses[cid].literals[j])
            /\ stamp[lit_to_var(clauses[cid].literals[i])] = Len(trail_lim)

\* C15 (well-formed watch slots): in every reachable state a clause of two
\* or more literals has two distinct watch indices within its literal list,
\* and a clause of one literal has both watch indices 0.
C15_WatchSlots ==
    \A cid \in 1..Len(clauses) :
        LET c == clauses[cid]
        IN /\ c.watched_indices[1] \in 0..(Len(c.literals) - 1)
           /\ c.watched_indices[2] \in 0..(Len(c.literals) - 1)
           /\ Len(c.literals) >= 2 => c.watched_indices[1] # c.watched_indices[2]
           /\ Len(c.literals) = 1 => c.watched_indices = <<0, 0>>

\* A clause of three literals has had its slots swapped and slot 1 moved to
\* the replacement, next to a clause of one literal.
C15_Witness ==
    /\ \E cid \in 1..Len(clauses) :
        /\ Len(clauses[cid].literals) = 3
        /\ clauses[cid].watched_indices = <<1, 2>>
    /\ \E cid \in 1..Len(clauses) : Len(clauses[cid].literals) = 1

\* The order of the alternatives of a Pair frame and of a Single frame.
PairOrder == << <<TRUE, TRUE>>, <<TRUE, FALSE>>, <<FALSE, TRUE>>, <<FALSE, FALSE>> >>

SingleOrder == << <<TRUE>>, <<FALSE>> >>

IsPrefix(s, t) == Len(s) <= Len(t) /\ SubSeq(t, 1, Len(s)) = s

\* The frames in use are those of the stack and the one backtrack holds.
FramesInUse ==
    IF dec = None THEN decision_stack ELSE Append(decision_stack, dec[1])

\* The alternatives attempted for frame h so far follow the order of its
\* kind, none of them twice.
InOrder(h) ==
    IF h.kind = "Pair" THEN IsPrefix(h.tried, PairOrder)
    ELSE IF h.kind = "Single" THEN IsPrefix(h.tried, SingleOrder)
    ELSE Len(h.tried) = 1

\* Every alternative of frame h has been attempted.
UsedUp(h) ==
    IF h.kind = "Pair" THEN h.tried = PairOrder
    ELSE IF h.kind = "Single" THEN h.tried = SingleOrder
    ELSE Len(h.tried) = 1

\* C16 (alternative order): the alternatives attempted for a Pair frame are
\* a prefix of (T,T), (T,F), (F,T), (F,F) and those of a Single frame a
\* prefix of true, false, so each is attempted in order and at most once; an
\* Implication frame has its one test and no other; and a frame leaves the
\* stack for good only when all its alternatives have been attempted.
C16_AlternativeOrder ==
    /\ [](/\ Len(history) = Len(FramesInUse)
          /\ \A i \in 1..Len(history) :
                /\ history[i].kind = FramesInUse[i].kind
                /\ InOrder(history[i]))
    /\ [][Len(history') < Len(history) => UsedUp(history[Len(history)])]_vars

\* backtrack is about to drop a Pair frame whose four combinations were
\* attempted, below a frame that stays.
C16_Witness ==
    /\ pc = "backtrack"
    /\ Len(decision_stack) >= 2
    /\ decision_stack[Len(decision_stack)].kind = "Pair"
    /\ decision_stack[Len(decision_stack)].tried_all
    /\ history[Len(history)].tried = PairOrder

\* backtrack is at the first assignment of the next alternative of the
\* frame it holds.
AtRetry ==
    \/ pc = "retry_single"
    \/ pc = "retry_pair" /\ dec[1].tried_comb + 1 < 4
    \/ pc = "assign_pair" /\ Head(ret) = "retried"

\* The variables of frame d.
FrameVars(d) == IF d.kind = "Single" THEN {d.var} ELSE {d.var1, d.var2}

\* C17 (retry starts from the checkpoint): when backtrack is at the first
\* assignment of the next alternative of a Single or Pair frame, the
\* assignment table and the trail are those the frame was opened on, and
\* the variables of the frame are unassigned.
C17_RetryFromCheckpoint ==
    AtRetry =>
        /\ assignments = history[Len(history)].assignments
        /\ trail = history[Len(history)].trail
        /\ \A v \in FrameVars(dec[1]) : assignments[v] = None

\* backtrack retries a Pair frame a second time: the frame was opened on a
\* trail that was not empty, and alternatives below it have failed.
C17_Witness ==
    /\ pc = "retry_pair"
    /\ dec[1].tried_comb = 1
    /\ history[Len(history)].trail # <<>>
    /\ Len(decisions) >= 4

\* Every total assignment that satisfies all stored clauses and makes
\* e.from true makes e.to true.
Consequence(e) ==
    \A m \in [DOMAIN assignments -> BOOLEAN] :
        (/\ m[e.from]
         /\ \A cid \in 1..Len(clauses) :
                \E i \in 1..Len(clauses[cid].literals) :
                    m[lit_to_var(clauses[cid].literals[i])] = (clauses[cid].literals[i] > 0))
            => m[e.to]

\* How often candidate e has been probed.
ProbedTimes(e) == Cardinality({ i \in 1..Len(probes) : probes[i] = e })

\* Only candidates of the load time are probed and recorded, and what is
\* recorded is a consequence of the stored clauses.
RecordedSound ==
    /\ \A i \in 1..Len(probes) : probes[i] \in new(input).pending_implications
    /\ \A e \in implications :
        /\ e \in new(input).pending_implications
        /\ ProbedTimes(e) = 1
        /\ Consequence(e)

\* C18 as stated (proven implications, every candidate probed exactly once
\* in every run): what is recorded is sound, and when solve has returned
\* each candidate of the load time has been probed exactly once.
C18_ProbedOnceAlways ==
    /\ RecordedSound
    /\ verdict # None =>
        \A e \in new(input).pending_implications : ProbedTimes(e) = 1

\* C18 (proven implications are consequences, amended): every recorded edge
\* is a candidate of the load time and a consequence of the stored clauses;
\* no candidate is ever probed twice; and each has been probed exactly once
\* when the first branch is taken or the main loop returns SAT.  A run that
\* ends in initial_propagation probes none.
C18_ProvenImplications ==
    /\ RecordedSound
    /\ \A e \in new(input).pending_implications : ProbedTimes(e) <= 1
    /\ (decisions # <<>> \/ verdict = Some(TRUE)) =>
        \A e \in new(input).pending_implications : ProbedTimes(e) = 1
    /\ (verdict # None /\ decisions = <<>> /\ verdict = Some(FALSE)) =>
        probes = <<>>

\* A branch has been taken after two candidates were probed, one recorded as
\* proven and one not.
C18_Witness ==
    /\ decisions # <<>>
    /\ Len(probes) >= 2
    /\ implications # {}
    /\ \E i \in 1..Len(probes) : probes[i] \notin implications

\* C19 (probes before branches): a Single or Pair frame is in use, or a
\* branch has been taken, only when no candidate is pending; while
\* candidates are pending no step takes a branching decision and no step
\* removes more than one candidate; and each time the main loop is at its
\* head before the first branch, every candidate gone from the pending set
\* has left exactly one Implication frame and one checkpoint, in the order
\* probed.
C19_ProbesBeforeBranches ==
    /\ []((decisions # <<>>
            \/ \E i \in 1..Len(FramesInUse) : FramesInUse[i].kind # "Implication")
          => pending_implications = {})
    /\ []((pc = "loop" /\ decisions = <<>>) =>
            /\ pending_implications =
                  new(input).pending_implications \ { probes[i] : i \in 1..Len(probes) }
            /\ Cardinality(pending_implications) + Len(probes) =
                  Cardinality(new(input).pending_implications)
            /\ decision_stack =
                  [i \in 1..Len(probes) |-> [kind |-> "Implication", edge |-> probes[i]]]
            /\ Len(trail_lim) = Len(probes))
    /\ [][pending_implications # {} =>
            /\ decisions' = decisions
            /\ Cardinality(pending_implications') >= Cardinality(pending_implications) - 1
            /\ Len(decision_stack') <= Len(decision_stack) + 1]_vars

\* The main loop is at its head after two probes, one of them proven, with
\* a candidate still pending.
C19_Witness ==
    /\ pc = "loop"
    /\ Len(probes) = 2
    /\ pending_implications # {}
    /\ implications # {}

\* How often variable v is on the trail.
OnTrail(v) == Cardinality({ i \in 1..Len(trail) : trail[i] = v })

\* C20 (assign never overwrites): from every reachable table and trail,
\* assign(lit) on an assigned variable leaves both as they are and returns
\* true exactly when the value agrees with the polarity of lit, and on an
\* unassigned variable sets the value, appends the variable to the trail
\* once and returns true; the trail holds each assigned variable once; and
\* no step changes the value of a variable that is assigned before and
\* after it.
C20_AssignNeverOverwrites ==
    /\ [](\A lit \in Lits(input.variable_count) :
            LET v == lit_to_var(lit)
                r == assign(assignments, trail, lit)
            IN IF assignments[v] # None
               THEN /\ r.assignments = assignments
                    /\ r.trail = trail
                    /\ r.ok <=> (assignments[v] = Some(lit > 0))
               ELSE /\ r.assignments[v] = Some(lit > 0)
                    /\ \A w \in DOMAIN assignments \ {v} : r.assignments[w] = assignments[w]
                    /\ r.trail = Append(trail, v)
                    /\ r.ok)
    /\ [](\A v \in DOMAIN assignments :
            OnTrail(v) = IF assignments[v] # None THEN 1 ELSE 0)
    /\ [][\A v \in DOMAIN assignments :
            (assignments[v] # None /\ assignments'[v] # None) =>
                assignments'[v] = assignments[v]]_vars

\* A probe's assign of to = false met to already true and returned false:
\* the probe goes to its undo with the conflict noted and to still true.
C20_Witness ==
    /\ pc = "undo_to_level"
    /\ ret # <<>>
    /\ Head(ret) = "probe_return"
    /\ rv = Some(TRUE)
    /\ assignments[edge[1].to] = Some(TRUE)

\* C21 (trail mirrors the assignment table): in every state a variable is
\* assigned exactly when it occurs on the trail, every entry of the trail
\* is a declared variable, and no variable occurs on the trail twice.
C21_TrailMirrors ==
    /\ \A i \in 1..Len(trail) : trail[i] \in DOMAIN assignments
    /\ \A v \in DOMAIN assignments :
        /\ (assignments[v] # None) <=> (\E i \in 1..Len(trail) : trail[i] = v)
        /\ \A i, j \in 1..Len(trail) : (trail[i] = v /\ trail[j] = v) => i = j

\* After an undo a retried alternative has succeeded under two checkpoints
\* or more, with a variable forced by propagation on the trail before a
\* smaller one.
C21_Witness ==
    /\ pc = "retried"
    /\ rv = Some(TRUE)
    /\ Len(trail_lim) >= 2
    /\ \E i, j \in 1..Len(trail) : i < j /\ trail[i] > trail[j]

\* C22 (checkpoints align with frames): at the head of the main loop there
\* are as many checkpoints as frames on the decision stack; when backtrack
\* is about to return true there are as many as frames counting the one it
\* puts back; and in every state the checkpoints are non-decreasing and
\* none exceeds the length of the trail.
C22_CheckpointsAlign ==
    /\ pc = "loop" => Len(trail_lim) = Len(decision_stack)
    /\ (pc = "retried" /\ rv = Some(TRUE)) =>
            /\ Len(trail_lim) = Len(decision_stack) + 1
            /\ Len(trail_lim) = Len(FramesInUse)
    /\ \A i \in 1..Len(trail_lim) :
        /\ trail_lim[i] <= Len(trail)
        /\ i > 1 => trail_lim[i - 1] <= trail_lim[i]

\* The main loop is at its head after backtrack returned true for a Pair
\* frame above an Implication frame, with assignments made under the last
\* checkpoint.
C22_Witness ==
    /\ pc = "loop"
    /\ Len(decision_stack) >= 2
    /\ decision_stack[1].kind = "Implication"
    /\ decision_stack[Len(decision_stack)].kind = "Pair"
    /\ decision_stack[Len(decision_stack)].tried_comb >= 1
    /\ trail_lim[Len(trail_lim)] < Len(trail)

\* Unit propagation by definition, over the stored clauses from the table
\* a: the table it ends with when it meets no conflict.
RECURSIVE UnitsClosure(_)
UnitsClosure(a) ==
    LET forced == { l \in Lits(input.variable_count) :
                        \E cid \in 1..Len(clauses) :
                            \E i \in 1..Len(clauses[cid].literals) :
                                /\ clauses[cid].literals[i] = l
                                /\ IsUnitAt(a, clauses[cid], i) }
    IN IF forced = {} THEN a
       ELSE LET l == CHOOSE x \in forced : TRUE
            IN UnitsClosure([a EXCEPT ![lit_to_var(l)] = Some(l > 0)])

\* What the load time forces: the closure from the empty table.
LoadForced == UnitsClosure([v \in DOMAIN assignments |-> None])

\* initial_propagation has returned success.
PastLoad ==
    /\ pc \notin {"solve", "initial_units"}
    /\ ~(pc = "propagate" /\ ret = <<"initial_units">>)
    /\ ~LoadConflict

\* C23 (load-time consequences are permanent): in every state after
\* initial_propagation has returned success, each variable it assigned has
\* the value it was given, and those variables are the first entries of the
\* trail, so that no undo has cut the trail below its length at the end of
\* initial propagation.
C23_LoadPermanent ==
    PastLoad =>
        LET base == Cardinality({ v \in DOMAIN assignments : LoadForced[v] # None })
        IN /\ \A v \in DOMAIN assignments :
                LoadForced[v] # None => assignments[v] = LoadForced[v]
           /\ Len(trail) >= base
           /\ \A i \in 1..base : LoadForced[trail[i]] # None
           /\ \A i \in 1..Len(trail_lim) : trail_lim[i] >= base

\* backtrack has undone the first polarity of a Single frame, back to a
\* trail that holds what the load time forced, one variable through a
\* clause of two literals.
C23_Witness ==
    /\ pc = "retry_single"
    /\ ~LoadConflict
    /\ Len(trail) >= 2
    /\ \A i \in 1..Len(trail) : LoadForced[trail[i]] # None

====
